---- MODULE Spec2Model ----
(***************************************************************************)
(* Model of frontend/src/actions/index.js of opentransit-metrics: the      *)
(* Redux thunks that expand date ranges, build the GraphQL variables and   *)
(* dispatch the trip / route / agency / arrivals fetches into the store.   *)
(*                                                                         *)
(* JavaScript values are represented as follows.                           *)
(*   - identifiers and times are strings, a null one is NULL;              *)
(*   - a calendar date is a day number >= 1 (day d falls on weekday        *)
(*     d % 7, 0 = Sunday), a null date is NoDate;                          *)
(*   - an optional object is a sequence of length 0 (null / undefined) or  *)
(*     1 (the object);                                                     *)
(*   - a JSON string is the sequence of <<key, value>> pairs in the order  *)
(*     JSON.stringify writes them.                                         *)
(***************************************************************************)
EXTENDS Integers, Sequences, FiniteSets, Bags, TLC

NULL == "null"

NoDate == 0

\* Bounds of the model.
MAX_DATE_RANGE == 3
MaxInFlight == 3
MaxSteps == 4
MaxDay == 8
MaxRangeDay == 2

Abs(x) == IF x < 0 THEN 0 - x ELSE x

Falsy(x) == x = NULL \/ x = ""

Truthy(x) == ~Falsy(x)

AllDays == [d \in 0..6 |-> TRUE]

WeekDays == [d \in 0..6 |-> d \in 1..5]

NoDays == [d \in 0..6 |-> FALSE]

\* Moment(null) is an invalid moment: diff() yields NaN and day() yields NaN.
MomentValid(m) == m # NoDate

\* moment.day(): 0 = Sunday .. 6 = Saturday
MomentDay(m) == m % 7

\* The text 'YYYY-MM-DD' of day m, written <<"date", m>>
DateStr(m) == <<"date", m>>

\* moment.format('YYYY-MM-DD')
MomentFormat(m) == DateStr(m)

\* The for loop of computeDates: i runs from 0 while i < numberOfDaysBack;
\* startMoment is advanced by one day in every iteration.
RECURSIVE computeDatesLoop(_, _, _, _, _)
computeDatesLoop(i, numberOfDaysBack, startMoment, daysOfTheWeek, dates) ==
  IF i < numberOfDaysBack
  THEN computeDatesLoop(i + 1, numberOfDaysBack, startMoment + 1, daysOfTheWeek,
         IF daysOfTheWeek[MomentDay(startMoment)]
         THEN Append(dates, MomentFormat(startMoment))
         ELSE dates)
  ELSE dates

\* computeDates not adding one for the end date itself
computeDatesNoEndDay(dateRangeParams) ==
  IF ~MomentValid(dateRangeParams.date) \/ ~MomentValid(dateRangeParams.startDate)
  THEN <<>>
  ELSE LET numberOfDaysBack0 == Abs(dateRangeParams.date - dateRangeParams.startDate)
           numberOfDaysBack == IF numberOfDaysBack0 > MAX_DATE_RANGE
                               THEN MAX_DATE_RANGE
                               ELSE numberOfDaysBack0
       IN computeDatesLoop(0, numberOfDaysBack, dateRangeParams.startDate,
                           dateRangeParams.daysOfTheWeek, <<>>)

\* computeDates without the MAX_DATE_RANGE guard rail
computeDatesNoGuard(dateRangeParams) ==
  IF ~MomentValid(dateRangeParams.date) \/ ~MomentValid(dateRangeParams.startDate)
  THEN <<>>
  ELSE computeDatesLoop(0, Abs(dateRangeParams.date - dateRangeParams.startDate) + 1,
                        dateRangeParams.startDate, dateRangeParams.daysOfTheWeek, <<>>)

\* With an invalid moment deltaDays and numberOfDaysBack are NaN, every
\* comparison with NaN is false and the loop body never runs.
computeDates(dateRangeParams) ==
  IF ~MomentValid(dateRangeParams.date) \/ ~MomentValid(dateRangeParams.startDate)
  THEN <<>>
  ELSE LET endMoment == dateRangeParams.date
           startMoment == dateRangeParams.startDate
           deltaDays == endMoment - startMoment
           numberOfDaysBack0 == Abs(deltaDays) + 1
           numberOfDaysBack == IF numberOfDaysBack0 > MAX_DATE_RANGE
                               THEN MAX_DATE_RANGE
                               ELSE numberOfDaysBack0
       IN computeDatesLoop(0, numberOfDaysBack, startMoment,
                           dateRangeParams.daysOfTheWeek, <<>>)

\* config.js
S3Bucket == "opentransit-bucket"

ArrivalsVersion == "v1"

Agencies0Id == "a1"

\* dateStr.replace(/-/g, '/'): the date written as a path YYYY/MM/DD
DatePath(dateStr) == <<"path", dateStr>>

generateArrivalsURL(agencyId, dateStr, routeId) ==
  <<"https://", S3Bucket, ".s3.amazonaws.com/arrivals/", ArrivalsVersion, "/",
    agencyId, "/", DatePath(dateStr), "/arrivals_", ArrivalsVersion, "_",
    agencyId, "_", dateStr, "_", routeId, ".json.gz?aj">>

----------------------------------------------------------------------------
\* Selections (graphParams objects)

NoRange == <<>>

DateRange(date, startDate, startTime, daysOfTheWeek) ==
  [date |-> date, startDate |-> startDate, startTime |-> startTime,
   endTime |-> IF startTime = NULL THEN NULL ELSE "09:00",
   daysOfTheWeek |-> daysOfTheWeek]

Params(agencyId, routeId, directionId, startStopId, endStopId, first, second) ==
  [agencyId |-> agencyId, routeId |-> routeId, directionId |-> directionId,
   startStopId |-> startStopId, endStopId |-> endStopId,
   firstDateRange |-> first, secondDateRange |-> second]

\* !!params.secondDateRange
HasSecond(params) == params.secondDateRange # NoRange

\* TripVariables asking for the per-day breakdown also in compare mode
TripVariablesByDayAlways(params) ==
  LET dates == computeDates(params.firstDateRange)
      variables ==
        << <<"agencyId", params.agencyId>>,
           <<"routeId", params.routeId>>,
           <<"directionId", params.directionId>>,
           <<"startStopId", params.startStopId>>,
           <<"endStopId", params.endStopId>>,
           <<"dates", dates>>,
           <<"startTime", params.firstDateRange.startTime>>,
           <<"endTime", params.firstDateRange.endTime>>,
           <<"includeTimeRanges", Falsy(params.firstDateRange.startTime)>>,
           <<"includeByDay", Len(dates) > 1>>,
           <<"includeTimeRanges2",
             HasSecond(params) /\ Falsy(params.secondDateRange[1].startTime)>>,
           <<"dualDateRange", HasSecond(params)>> >>
  IN IF HasSecond(params)
     THEN variables \o
          << <<"dates2", computeDates(params.secondDateRange[1])>>,
             <<"startTime2", params.secondDateRange[1].startTime>>,
             <<"endTime2", params.secondDateRange[1].endTime>> >>
     ELSE variables

\* JSON.stringify(variables) of fetchTripMetrics
TripVariables(params) ==
  LET dates == computeDates(params.firstDateRange)
      variables ==
        << <<"agencyId", params.agencyId>>,
           <<"routeId", params.routeId>>,
           <<"directionId", params.directionId>>,
           <<"startStopId", params.startStopId>>,
           <<"endStopId", params.endStopId>>,
           <<"dates", dates>>,
           <<"startTime", params.firstDateRange.startTime>>,
           <<"endTime", params.firstDateRange.endTime>>,
           <<"includeTimeRanges", Falsy(params.firstDateRange.startTime)>>,
           <<"includeByDay", ~HasSecond(params) /\ Len(dates) > 1>>,
           <<"includeTimeRanges2",
             HasSecond(params) /\ Falsy(params.secondDateRange[1].startTime)>>,
           <<"dualDateRange", HasSecond(params)>> >>
  IN IF HasSecond(params)
     THEN variables \o
          << <<"dates2", computeDates(params.secondDateRange[1])>>,
             <<"startTime2", params.secondDateRange[1].startTime>>,
             <<"endTime2", params.secondDateRange[1].endTime>> >>
     ELSE variables

\* JSON.stringify(variables) of fetchRouteMetrics
RouteVariables(params) ==
  LET dates == computeDates(params.firstDateRange)
      variables ==
        << <<"agencyId", Agencies0Id>>,
           <<"routeId", params.routeId>>,
           <<"dates", dates>>,
           <<"startTime", params.firstDateRange.startTime>>,
           <<"endTime", params.firstDateRange.endTime>>,
           <<"dualDateRange", HasSecond(params)>> >>
  IN IF HasSecond(params)
     THEN variables \o
          << <<"dates2", computeDates(params.secondDateRange[1])>>,
             <<"startTime2", params.secondDateRange[1].startTime>>,
             <<"endTime2", params.secondDateRange[1].endTime>> >>
     ELSE variables

\* JSON.stringify(variables) of fetchAgencyMetrics
AgencyVariables(params) ==
  LET dates == computeDates(params.firstDateRange)
  IN << <<"agencyId", Agencies0Id>>,
        <<"dates", dates>>,
        <<"startTime", params.firstDateRange.startTime>>,
        <<"endTime", params.firstDateRange.endTime>> >>

\* the text JavaScript writes for undefined in a template string
Undefined == <<"undefined">>

\* arr[i] of a JavaScript array, i counted from 0: undefined past the end
ArrayAt(arr, i) == IF i < Len(arr) THEN arr[i + 1] ELSE Undefined

\* fetchDownload: the variables of the download request and the file name
fetchDownload(params) ==
  LET dates == computeDates(params.firstDateRange)
      routeId == params.routeId
      variablesJson ==
        << <<"agencyId", Agencies0Id>>,
           <<"routeId", params.routeId>>,
           <<"dates", dates>>,
           <<"directionId", params.directionId>>,
           <<"startStopId", params.startStopId>>,
           <<"endStopId", params.endStopId>>,
           <<"startTime", params.firstDateRange.startTime>>,
           <<"endTime", params.firstDateRange.endTime>>,
           <<"dualDateRange", HasSecond(params)>> >>
      downloadFilename ==
        IF Len(dates) = 1
        THEN <<"arrivals_", routeId, "_", ArrayAt(dates, 0), ".csv">>
        ELSE <<"arrivals_", routeId, "_", ArrayAt(dates, 0), "_", ArrayAt(dates, 1), ".csv">>
  IN [variablesJson |-> variablesJson, downloadFilename |-> downloadFilename]

----------------------------------------------------------------------------
\* HTTP responses

NoErrors == [kind |-> "absent", items |-> <<>>]

ErrorList(items) == [kind |-> "list", items |-> items]

\* an errors member that is not an array
ErrorObject == [kind |-> "object", items |-> <<>>]

\* Message of the TypeError raised by reading .message of undefined
TypeErrorMessage == "Cannot read property 'message' of undefined"

NetworkErrorMessage == "Network Error"

\* errors[0].message: throws when errors[0] is undefined
FirstErrorMessage(errors) ==
  IF errors.kind = "list" /\ Len(errors.items) > 0
  THEN [threw |-> FALSE, value |-> errors.items[1]]
  ELSE [threw |-> TRUE, value |-> TypeErrorMessage]

\* the metrics the backend computed for the request with variables key
TripNode(key) == [for |-> key, scope |-> "trip"]

RouteNode(key, trip) == [for |-> key, scope |-> "route", trip |-> trip]

AgencyNode(key, route) == [for |-> key, scope |-> "agency", route |-> route]

\* response.data of a resolved call: null or {errors?, data?}
Payload(errors, data) == <<[errors |-> errors, data |-> data]>>

Resolved(responseData) == [ok |-> TRUE, data |-> responseData]

\* a rejected call: err.message and err.response.data.errors
Rejected(errors) == [ok |-> FALSE, message |-> NetworkErrorMessage, errors |-> errors]

FullData(key) ==
  <<[agency |-> <<AgencyNode(key, <<RouteNode(key, <<TripNode(key)>>)>>)>>]>>

\* Outcomes of a GraphQL call for the request with variables key
GraphqlOutcomes(key) ==
  { Resolved(Payload(NoErrors, FullData(key))),
    Resolved(Payload(NoErrors, <<[agency |-> <<AgencyNode(key, <<>>)>>]>>)),
    Resolved(Payload(NoErrors, <<[agency |-> <<AgencyNode(key, <<RouteNode(key, <<>>)>>)>>]>>)),
    Resolved(Payload(NoErrors, <<[agency |-> <<>>]>>)),
    Resolved(Payload(NoErrors, <<>>)),
    Resolved(<<>>),
    Resolved(Payload(ErrorList(<<"bad route", "other">>), FullData(key))),
    Resolved(Payload(ErrorList(<<>>), <<>>)),
    Resolved(Payload(ErrorObject, <<>>)),
    Rejected(NoErrors),
    Rejected(ErrorList(<<"backend", "second">>)),
    Rejected(ErrorList(<<>>)) }

\* Outcomes of the S3 call for url
ArrivalsOutcomes(url) ==
  { Resolved(<<[for |-> url]>>), Rejected(NoErrors),
    Rejected(ErrorList(<<"backend", "second">>)) }

----------------------------------------------------------------------------
\* The Redux store.  A world w is the store, the calls in flight and the
\* transitions dispatched by the handler that is running.
\*   trace          what the last handler did, in order: the thunks it called,
\*                  the actions it dispatched, the calls it started
\*   lastRequested  per scope, the variables (url) of the call issued last, or
\*                  <<>> when none was issued since the scope was reset
\*   step           which handler ran last, with its input and what it saw
\*   call           the last direct call of a function that leaves the store
\*                  alone (computeDates, the variable bindings, fetchDownload),
\*                  with its input and its result

VARIABLES graphParams, tripMetrics, routeMetrics, agencyMetrics, arrivals,
          network, trace, lastRequested, step, nSteps, call

storeVars == <<graphParams, tripMetrics, routeMetrics, agencyMetrics, arrivals,
               network, trace, lastRequested, step, nSteps>>

vars == <<graphParams, tripMetrics, routeMetrics, agencyMetrics, arrivals,
          network, trace, lastRequested, step, nSteps, call>>

World ==
  [graphParams |-> graphParams, tripMetrics |-> tripMetrics,
   routeMetrics |-> routeMetrics, agencyMetrics |-> agencyMetrics,
   arrivals |-> arrivals, network |-> network, trace |-> <<>>,
   lastRequested |-> lastRequested]

graphParamsReducer(state, action) ==
  IF action.type = "RECEIVED_GRAPH_PARAMS" THEN action.params ELSE state

tripMetricsReducer(state, action) ==
  CASE action.type = "REQUEST_TRIP_METRICS" ->
         [state EXCEPT !.status = "requesting"]
    [] action.type = "RECEIVED_TRIP_METRICS" ->
         [state EXCEPT !.status = "received", !.data = action.data]
    [] action.type = "ERROR_TRIP_METRICS" ->
         [state EXCEPT !.status = "error", !.error = action.error]
    [] OTHER -> state

routeMetricsReducer(state, action) ==
  CASE action.type = "REQUEST_ROUTE_METRICS" ->
         [state EXCEPT !.status = "requesting",
                       !.variablesJson = action.variablesJson]
    [] action.type = "RECEIVED_ROUTE_METRICS" ->
         [state EXCEPT !.status = "received",
                       !.variablesJson = action.variablesJson,
                       !.data = action.data]
    [] action.type = "ERROR_ROUTE_METRICS" ->
         [state EXCEPT !.status = "error", !.error = action.error]
    [] OTHER -> state

agencyMetricsReducer(state, action) ==
  CASE action.type = "REQUEST_AGENCY_METRICS" ->
         [state EXCEPT !.status = "requesting",
                       !.variablesJson = action.variablesJson]
    [] action.type = "RECEIVED_AGENCY_METRICS" ->
         [state EXCEPT !.status = "received",
                       !.variablesJson = action.variablesJson,
                       !.data = action.data]
    [] action.type = "ERROR_AGENCY_METRICS" ->
         [state EXCEPT !.status = "error", !.error = action.error]
    [] OTHER -> state

arrivalsReducer(state, action) ==
  CASE action.type = "REQUEST_ARRIVALS" ->
         [state EXCEPT !.status = "requesting"]
    [] action.type = "RECEIVED_ARRIVALS" ->
         [state EXCEPT !.status = "received", !.url = action.url,
                       !.data = action.data]
    [] action.type = "ERROR_ARRIVALS" ->
         [state EXCEPT !.status = "error", !.error = action.error]
    [] OTHER -> state

\* store.dispatch(action): every reducer sees the action
dispatch(w, action) ==
  [w EXCEPT !.graphParams = graphParamsReducer(@, action),
            !.tripMetrics = tripMetricsReducer(@, action),
            !.routeMetrics = routeMetricsReducer(@, action),
            !.agencyMetrics = agencyMetricsReducer(@, action),
            !.arrivals = arrivalsReducer(@, action),
            !.trace = Append(@, action)]

\* a thunk starts to run (recorded in the trace, no effect on the store)
Called(w, fn, variables) ==
  [w EXCEPT !.trace = Append(@, [type |-> "call", fn |-> fn, variables |-> variables])]

RequestType(scope) ==
  CASE scope = "trip" -> "REQUEST_TRIP_METRICS"
    [] scope = "route" -> "REQUEST_ROUTE_METRICS"
    [] scope = "agency" -> "REQUEST_AGENCY_METRICS"
    [] scope = "arrivals" -> "REQUEST_ARRIVALS"

\* axios.get(...): the call is in flight until its promise settles.  The
\* request remembers whether the Requested transition of its scope was
\* dispatched before the call started.
axiosGet(w, scope, key) ==
  LET req == [scope |-> scope, key |-> key,
              requested |-> \E i \in 1..Len(w.trace) :
                               w.trace[i].type = RequestType(scope)]
  IN [w EXCEPT !.network = @ (+) SetToBag({req}),
               !.lastRequested[scope] = key,
               !.trace = Append(@, [type |-> "axios.get", scope |-> scope, key |-> key])]

----------------------------------------------------------------------------
\* The thunks

\* tripThen reporting the last entry of the error list instead of the first
tripThenLastError(w, response) ==
  LET responseData == response.data
  IN IF responseData # <<>> /\ responseData[1].errors.kind # "absent"
     THEN LET m == FirstErrorMessage(responseData[1].errors)
              items == responseData[1].errors.items
          IN IF m.threw
             THEN [threw |-> TRUE, w |-> w]
             ELSE [threw |-> FALSE,
                   w |-> dispatch(w, [type |-> "ERROR_TRIP_METRICS",
                                      error |-> items[Len(items)]])]
     ELSE LET agencyData == IF responseData # <<>> /\ responseData[1].data # <<>>
                               THEN responseData[1].data[1].agency ELSE <<>>
              routeData == IF agencyData # <<>> THEN agencyData[1].route ELSE <<>>
              tripData == IF routeData # <<>> THEN routeData[1].trip ELSE <<>>
          IN [threw |-> FALSE,
              w |-> dispatch(w, [type |-> "RECEIVED_TRIP_METRICS", data |-> tripData])]

\* .then(response => ...) of fetchTripMetrics
tripThen(w, response) ==
  LET responseData == response.data
  IN IF responseData # <<>> /\ responseData[1].errors.kind # "absent"
     THEN LET m == FirstErrorMessage(responseData[1].errors)
          IN IF m.threw
             THEN [threw |-> TRUE, w |-> w]
             ELSE [threw |-> FALSE,
                   w |-> dispatch(w, [type |-> "ERROR_TRIP_METRICS", error |-> m.value])]
     ELSE LET agencyData == IF responseData # <<>> /\ responseData[1].data # <<>>
                               THEN responseData[1].data[1].agency ELSE <<>>
              routeData == IF agencyData # <<>> THEN agencyData[1].route ELSE <<>>
              tripData == IF routeData # <<>> THEN routeData[1].trip ELSE <<>>
          IN [threw |-> FALSE,
              w |-> dispatch(w, [type |-> "RECEIVED_TRIP_METRICS", data |-> tripData])]

\* .catch(err => ...) of fetchTripMetrics
tripCatch(w, err) ==
  IF err.errors.kind # "absent"
  THEN LET m == FirstErrorMessage(err.errors)
       IN IF m.threw
          THEN [threw |-> TRUE, w |-> w]
          ELSE [threw |-> FALSE,
                w |-> dispatch(w, [type |-> "ERROR_TRIP_METRICS", error |-> m.value])]
  ELSE [threw |-> FALSE,
        w |-> dispatch(w, [type |-> "ERROR_TRIP_METRICS", error |-> err.message])]

\* the error a throwing handler rejects its promise with
ThrownTypeError == [ok |-> FALSE, message |-> TypeErrorMessage, errors |-> NoErrors]

\* axios.get(...).then(...).catch(...) of fetchTripMetrics, once the call settles:
\* a throw in the then handler is passed to the catch handler, a throw in the
\* catch handler is an unhandled rejection.
tripSettle(w, outcome) ==
  IF outcome.ok
  THEN LET t == tripThen(w, outcome)
       IN IF t.threw THEN tripCatch(w, ThrownTypeError).w ELSE t.w
  ELSE tripCatch(w, outcome).w

fetchTripMetrics(w, params) ==
  LET variables == TripVariables(params)
      w1 == Called(w, "fetchTripMetrics", variables)
      w2 == dispatch(w1, [type |-> "REQUEST_TRIP_METRICS"])
  IN axiosGet(w2, "trip", variables)

resetTripMetrics(w) ==
  [dispatch(Called(w, "resetTripMetrics", <<>>),
            [type |-> "RECEIVED_TRIP_METRICS", data |-> <<>>])
     EXCEPT !.lastRequested["trip"] = <<>>]

\* routeThen treating a missing agency node as an error
routeThenStrict(w, response, variablesJson) ==
  LET responseData == response.data
  IN IF responseData # <<>> /\ responseData[1].errors.kind # "absent"
     THEN LET m == FirstErrorMessage(responseData[1].errors)
          IN IF m.threw
             THEN [threw |-> TRUE, w |-> w]
             ELSE [threw |-> FALSE,
                   w |-> dispatch(w, [type |-> "ERROR_ROUTE_METRICS", error |-> m.value])]
     ELSE LET agencyData == IF responseData # <<>> /\ responseData[1].data # <<>>
                               THEN responseData[1].data[1].agency ELSE <<>>
          IN IF agencyData = <<>>
             THEN [threw |-> TRUE, w |-> w]
             ELSE [threw |-> FALSE,
                   w |-> dispatch(w, [type |-> "RECEIVED_ROUTE_METRICS",
                                      variablesJson |-> variablesJson,
                                      data |-> agencyData[1].route])]

\* .then(response => ...) of fetchRouteMetrics
routeThen(w, response, variablesJson) ==
  LET responseData == response.data
  IN IF responseData # <<>> /\ responseData[1].errors.kind # "absent"
     THEN LET m == FirstErrorMessage(responseData[1].errors)
          IN IF m.threw
             THEN [threw |-> TRUE, w |-> w]
             ELSE [threw |-> FALSE,
                   w |-> dispatch(w, [type |-> "ERROR_ROUTE_METRICS", error |-> m.value])]
     ELSE LET agencyData == IF responseData # <<>> /\ responseData[1].data # <<>>
                               THEN responseData[1].data[1].agency ELSE <<>>
              routeData == IF agencyData # <<>> THEN agencyData[1].route ELSE <<>>
          IN [threw |-> FALSE,
              w |-> dispatch(w, [type |-> "RECEIVED_ROUTE_METRICS",
                                 variablesJson |-> variablesJson,
                                 data |-> routeData])]

\* .catch(err => ...) of fetchRouteMetrics
routeCatch(w, err) ==
  IF err.errors.kind # "absent"
  THEN LET m == FirstErrorMessage(err.errors)
       IN IF m.threw
          THEN [threw |-> TRUE, w |-> w]
          ELSE [threw |-> FALSE,
                w |-> dispatch(w, [type |-> "ERROR_ROUTE_METRICS", error |-> m.value])]
  ELSE [threw |-> FALSE,
        w |-> dispatch(w, [type |-> "ERROR_ROUTE_METRICS", error |-> err.message])]

routeSettle(w, outcome, variablesJson) ==
  IF outcome.ok
  THEN LET t == routeThen(w, outcome, variablesJson)
       IN IF t.threw THEN routeCatch(w, ThrownTypeError).w ELSE t.w
  ELSE routeCatch(w, outcome).w

fetchRouteMetrics(w, params) ==
  LET variablesJson == RouteVariables(params)
      w1 == Called(w, "fetchRouteMetrics", variablesJson)
  IN IF w1.routeMetrics.variablesJson # variablesJson
     THEN axiosGet(dispatch(w1, [type |-> "REQUEST_ROUTE_METRICS",
                                 variablesJson |-> variablesJson]),
                   "route", variablesJson)
     ELSE w1

\* .then(response => ...) of fetchAgencyMetrics
agencyThen(w, response, variablesJson) ==
  LET responseData == response.data
  IN IF responseData # <<>> /\ responseData[1].errors.kind # "absent"
     THEN LET m == FirstErrorMessage(responseData[1].errors)
          IN IF m.threw
             THEN [threw |-> TRUE, w |-> w]
             ELSE [threw |-> FALSE,
                   w |-> dispatch(w, [type |-> "ERROR_AGENCY_METRICS", error |-> m.value])]
     ELSE LET agencyData == IF responseData # <<>> /\ responseData[1].data # <<>>
                               THEN responseData[1].data[1].agency ELSE <<>>
          IN [threw |-> FALSE,
              w |-> dispatch(w, [type |-> "RECEIVED_AGENCY_METRICS",
                                 variablesJson |-> variablesJson,
                                 data |-> agencyData])]

\* .catch(err => ...) of fetchAgencyMetrics
agencyCatch(w, err) ==
  IF err.errors.kind # "absent"
  THEN LET m == FirstErrorMessage(err.errors)
       IN IF m.threw
          THEN [threw |-> TRUE, w |-> w]
          ELSE [threw |-> FALSE,
                w |-> dispatch(w, [type |-> "ERROR_AGENCY_METRICS", error |-> m.value])]
  ELSE [threw |-> FALSE,
        w |-> dispatch(w, [type |-> "ERROR_AGENCY_METRICS", error |-> err.message])]

agencySettle(w, outcome, variablesJson) ==
  IF outcome.ok
  THEN LET t == agencyThen(w, outcome, variablesJson)
       IN IF t.threw THEN agencyCatch(w, ThrownTypeError).w ELSE t.w
  ELSE agencyCatch(w, outcome).w

\* fetchAgencyMetrics starting the call before it dispatches the request
fetchAgencyMetricsGetFirst(w, params) ==
  LET variablesJson == AgencyVariables(params)
      w1 == Called(w, "fetchAgencyMetrics", variablesJson)
  IN IF w1.agencyMetrics.variablesJson # variablesJson
     THEN dispatch(axiosGet(w1, "agency", variablesJson),
                   [type |-> "REQUEST_AGENCY_METRICS", variablesJson |-> variablesJson])
     ELSE w1

fetchAgencyMetrics(w, params) ==
  LET variablesJson == AgencyVariables(params)
      w1 == Called(w, "fetchAgencyMetrics", variablesJson)
  IN IF w1.agencyMetrics.variablesJson # variablesJson
     THEN axiosGet(dispatch(w1, [type |-> "REQUEST_AGENCY_METRICS",
                                 variablesJson |-> variablesJson]),
                   "agency", variablesJson)
     ELSE w1

\* arrivalsSettle reporting the cause of the failure
arrivalsSettleCause(w, outcome, s3Url) ==
  IF outcome.ok
  THEN dispatch(w, [type |-> "RECEIVED_ARRIVALS", data |-> outcome.data, url |-> s3Url])
  ELSE dispatch(w, [type |-> "ERROR_ARRIVALS",
                    error |-> IF outcome.errors.kind = "list"
                              THEN outcome.errors.items[1] ELSE "No data."])

\* axios.get(s3Url).then(...).catch(...) of fetchArrivals, once the call settles
arrivalsSettle(w, outcome, s3Url) ==
  IF outcome.ok
  THEN dispatch(w, [type |-> "RECEIVED_ARRIVALS", data |-> outcome.data, url |-> s3Url])
  ELSE dispatch(w, [type |-> "ERROR_ARRIVALS", error |-> "No data."])

fetchArrivals(w, params) ==
  LET dateStr == DateStr(params.firstDateRange.date)
      agencyId == params.agencyId
      s3Url == generateArrivalsURL(agencyId, dateStr, params.routeId)
      w1 == Called(w, "fetchArrivals", s3Url)
  IN IF w1.arrivals.url # s3Url
     THEN axiosGet(dispatch(w1, [type |-> "REQUEST_ARRIVALS"]), "arrivals", s3Url)
     ELSE w1

resetArrivals(w) ==
  [dispatch(Called(w, "resetArrivals", <<>>),
            [type |-> "RECEIVED_ARRIVALS", url |-> <<>>, data |-> <<>>])
     EXCEPT !.lastRequested["arrivals"] = <<>>]

\* handleGraphParams clearing the arrivals whenever any part of the selection changed
handleGraphParamsResetOnAnyChange(w, params) ==
  LET oldParams == w.graphParams
      w1 == dispatch(w, [type |-> "RECEIVED_GRAPH_PARAMS", params |-> params])
      gp == w1.graphParams
      w2 == IF oldParams # gp THEN resetArrivals(w1) ELSE w1
      w3 == IF gp.firstDateRange.date # NoDate THEN fetchAgencyMetrics(w2, gp) ELSE w2
      w4 == IF Truthy(gp.agencyId) /\ Truthy(gp.routeId)
            THEN fetchRouteMetrics(w3, gp) ELSE w3
  IN IF /\ Truthy(gp.agencyId)
        /\ Truthy(gp.routeId)
        /\ Truthy(gp.directionId)
        /\ Truthy(gp.startStopId)
        /\ Truthy(gp.endStopId)
     THEN fetchTripMetrics(w4, gp)
     ELSE resetTripMetrics(w4)

\* handleGraphParams clearing the arrivals after it triggered the fetches
handleGraphParamsResetLast(w, params) ==
  LET oldParams == w.graphParams
      w1 == dispatch(w, [type |-> "RECEIVED_GRAPH_PARAMS", params |-> params])
      gp == w1.graphParams
      w3 == IF gp.firstDateRange.date # NoDate THEN fetchAgencyMetrics(w1, gp) ELSE w1
      w4 == IF Truthy(gp.agencyId) /\ Truthy(gp.routeId)
            THEN fetchRouteMetrics(w3, gp) ELSE w3
      w5 == IF /\ Truthy(gp.agencyId)
               /\ Truthy(gp.routeId)
               /\ Truthy(gp.directionId)
               /\ Truthy(gp.startStopId)
               /\ Truthy(gp.endStopId)
            THEN fetchTripMetrics(w4, gp)
            ELSE resetTripMetrics(w4)
  IN IF \/ oldParams.firstDateRange.date # gp.firstDateRange.date
        \/ oldParams.routeId # gp.routeId
        \/ oldParams.agencyId # gp.agencyId
     THEN resetArrivals(w5) ELSE w5

\* handleGraphParams not looking at endStopId before it fetches the trip
handleGraphParamsNoEndStop(w, params) ==
  LET oldParams == w.graphParams
      w1 == dispatch(w, [type |-> "RECEIVED_GRAPH_PARAMS", params |-> params])
      gp == w1.graphParams
      w2 == IF \/ oldParams.firstDateRange.date # gp.firstDateRange.date
               \/ oldParams.routeId # gp.routeId
               \/ oldParams.agencyId # gp.agencyId
            THEN resetArrivals(w1) ELSE w1
      w3 == IF gp.firstDateRange.date # NoDate THEN fetchAgencyMetrics(w2, gp) ELSE w2
      w4 == IF Truthy(gp.agencyId) /\ Truthy(gp.routeId)
            THEN fetchRouteMetrics(w3, gp) ELSE w3
  IN IF /\ Truthy(gp.agencyId)
        /\ Truthy(gp.routeId)
        /\ Truthy(gp.directionId)
        /\ Truthy(gp.startStopId)
     THEN fetchTripMetrics(w4, gp)
     ELSE resetTripMetrics(w4)

\* handleGraphParams fetching the route only when it fetched the agency
handleGraphParamsNested(w, params) ==
  LET oldParams == w.graphParams
      w1 == dispatch(w, [type |-> "RECEIVED_GRAPH_PARAMS", params |-> params])
      gp == w1.graphParams
      w2 == IF \/ oldParams.firstDateRange.date # gp.firstDateRange.date
               \/ oldParams.routeId # gp.routeId
               \/ oldParams.agencyId # gp.agencyId
            THEN resetArrivals(w1) ELSE w1
      w3 == IF gp.firstDateRange.date # NoDate THEN fetchAgencyMetrics(w2, gp) ELSE w2
      w4 == IF gp.firstDateRange.date # NoDate /\ Truthy(gp.agencyId) /\ Truthy(gp.routeId)
            THEN fetchRouteMetrics(w3, gp) ELSE w3
  IN IF /\ Truthy(gp.agencyId)
        /\ Truthy(gp.routeId)
        /\ Truthy(gp.directionId)
        /\ Truthy(gp.startStopId)
        /\ Truthy(gp.endStopId)
     THEN fetchTripMetrics(w4, gp)
     ELSE resetTripMetrics(w4)

handleGraphParams(w, params) ==
  LET oldParams == w.graphParams
      w1 == dispatch(w, [type |-> "RECEIVED_GRAPH_PARAMS", params |-> params])
      gp == w1.graphParams
      w2 == IF \/ oldParams.firstDateRange.date # gp.firstDateRange.date
               \/ oldParams.routeId # gp.routeId
               \/ oldParams.agencyId # gp.agencyId
            THEN resetArrivals(w1) ELSE w1
      w3 == IF gp.firstDateRange.date # NoDate THEN fetchAgencyMetrics(w2, gp) ELSE w2
      w4 == IF Truthy(gp.agencyId) /\ Truthy(gp.routeId)
            THEN fetchRouteMetrics(w3, gp) ELSE w3
  IN IF /\ Truthy(gp.agencyId)
        /\ Truthy(gp.routeId)
        /\ Truthy(gp.directionId)
        /\ Truthy(gp.startStopId)
        /\ Truthy(gp.endStopId)
     THEN fetchTripMetrics(w4, gp)
     ELSE resetTripMetrics(w4)

----------------------------------------------------------------------------
\* The state machine

Single(date) == DateRange(date, date, NULL, AllDays)

BaseParams == Params("a1", "r1", "d1", "s1", "s2", Single(1), NoRange)

\* The selections the UI passes to handleGraphParams
Selections ==
  { BaseParams,
    [BaseParams EXCEPT !.agencyId = NULL],
    [BaseParams EXCEPT !.agencyId = "a2"],
    [BaseParams EXCEPT !.routeId = NULL],
    [BaseParams EXCEPT !.routeId = "r2"],
    [BaseParams EXCEPT !.directionId = NULL],
    [BaseParams EXCEPT !.startStopId = NULL],
    [BaseParams EXCEPT !.endStopId = NULL],
    [BaseParams EXCEPT !.firstDateRange = Single(NoDate)],
    [BaseParams EXCEPT !.firstDateRange = Single(2)],
    [BaseParams EXCEPT !.firstDateRange = Single(NoDate), !.routeId = NULL] }

\* initial state of the graphParams reducer: the first agency, nothing selected
InitialGraphParams == Params(Agencies0Id, NULL, NULL, NULL, NULL, Single(1), NoRange)

Scopes == {"trip", "route", "agency", "arrivals"}

Init ==
  /\ graphParams = InitialGraphParams
  /\ tripMetrics = [status |-> "idle", data |-> <<>>, error |-> NULL]
  /\ routeMetrics = [status |-> "idle", variablesJson |-> <<>>, data |-> <<>>, error |-> NULL]
  /\ agencyMetrics = [status |-> "idle", variablesJson |-> <<>>, data |-> <<>>, error |-> NULL]
  /\ arrivals = [status |-> "idle", url |-> <<>>, data |-> <<>>, error |-> NULL]
  /\ network = EmptyBag
  /\ trace = <<>>
  /\ lastRequested = [s \in Scopes |-> <<>>]
  /\ step = [kind |-> "init"]
  /\ nSteps = 0
  /\ call = [fn |-> "none"]

\* the state left by a handler that ran from the current state to world w
Becomes(w, st) ==
  /\ BagCardinality(w.network) <= MaxInFlight
  /\ graphParams' = w.graphParams
  /\ tripMetrics' = w.tripMetrics
  /\ routeMetrics' = w.routeMetrics
  /\ agencyMetrics' = w.agencyMetrics
  /\ arrivals' = w.arrivals
  /\ network' = w.network
  /\ trace' = w.trace
  /\ lastRequested' = w.lastRequested
  /\ step' = st
  /\ nSteps' = nSteps + 1
  /\ UNCHANGED call

\* the UI replaces the selection
HandleGraphParams ==
  /\ nSteps < MaxSteps
  /\ \E params \in Selections :
       Becomes(handleGraphParams(World, params),
               [kind |-> "handleGraphParams", params |-> params,
                oldParams |-> graphParams, prevRequested |-> lastRequested,
                arrivalsBefore |-> arrivals])

\* the arrivals location of a selection
ArrivalsURLOf(params) ==
  generateArrivalsURL(params.agencyId, DateStr(params.firstDateRange.date), params.routeId)

\* the UI asks for the arrival history of the stored selection
FetchArrivals ==
  /\ nSteps < MaxSteps
  /\ graphParams.firstDateRange.date # NoDate
  /\ Becomes(fetchArrivals(World, graphParams),
             [kind |-> "fetchArrivals", params |-> graphParams, oldUrl |-> arrivals.url,
              wasInFlight |-> \E req \in BagToSet(network) :
                                 /\ req.scope = "arrivals"
                                 /\ req.key = ArrivalsURLOf(graphParams)])

Slice(scope) ==
  CASE scope = "trip" -> tripMetrics
    [] scope = "route" -> routeMetrics
    [] scope = "agency" -> agencyMetrics
    [] scope = "arrivals" -> arrivals

Outcomes(req) ==
  IF req.scope = "arrivals" THEN ArrivalsOutcomes(req.key) ELSE GraphqlOutcomes(req.key)

Settle(w, req, outcome) ==
  CASE req.scope = "trip" -> tripSettle(w, outcome)
    [] req.scope = "route" -> routeSettle(w, outcome, req.key)
    [] req.scope = "agency" -> agencySettle(w, outcome, req.key)
    [] req.scope = "arrivals" -> arrivalsSettle(w, outcome, req.key)

\* the promise of a call in flight settles and its handlers run
Deliver ==
  /\ nSteps < MaxSteps
  /\ \E req \in BagToSet(network) :
       \E outcome \in Outcomes(req) :
         Becomes(Settle([World EXCEPT !.network = @ (-) SetToBag({req})], req, outcome),
                 [kind |-> "deliver", req |-> req, outcome |-> outcome,
                  stale |-> lastRequested[req.scope] \notin {req.key, <<>>},
                  before |-> Slice(req.scope)])

Next == HandleGraphParams \/ FetchArrivals \/ Deliver

Spec == Init /\ [][Next]_vars

----------------------------------------------------------------------------
\* Direct calls of the functions that leave the store alone, each made once
\* from the initial state (the functions read nothing but their argument)

Masks == {AllDays, WeekDays, NoDays}

\* the date ranges computeDates is called with: date may be null
DateRangeInputs ==
  {DateRange(date, startDate, NULL, days) :
     date \in 0..MaxDay, startDate \in 1..MaxDay, days \in Masks}

ComputeDates ==
  /\ call.fn = "none"
  /\ \E dateRangeParams \in DateRangeInputs :
       call' = [fn |-> "computeDates", input |-> dateRangeParams,
                output |-> computeDates(dateRangeParams)]
  /\ UNCHANGED storeVars

\* the date ranges of the selections the builders are called with
SmallRanges ==
  {DateRange(date, startDate, startTime, days) :
     date \in 1..MaxRangeDay, startDate \in 1..MaxRangeDay,
     startTime \in {NULL, "08:00"}, days \in {AllDays, NoDays}}

ParamsInputs ==
  {Params(agencyId, "r1", "d1", "s1", "s2", first, second) :
     agencyId \in {"a1", "a2"},
     first \in SmallRanges,
     second \in {NoRange} \cup {<<r>> : r \in SmallRanges}}

\* the variable bindings fetchTripMetrics builds for a selection
BuildTripVariables ==
  /\ call.fn = "none"
  /\ \E params \in ParamsInputs :
       call' = [fn |-> "tripVariables", input |-> params,
                output |-> TripVariables(params)]
  /\ UNCHANGED storeVars

FetchDownload ==
  /\ call.fn = "none"
  /\ \E params \in ParamsInputs :
       call' = [fn |-> "fetchDownload", input |-> params,
                output |-> fetchDownload(params)]
  /\ UNCHANGED storeVars

NextCalls == ComputeDates \/ BuildTripVariables \/ FetchDownload

SpecCalls == Init /\ [][NextCalls]_vars

----------------------------------------------------------------------------
\* Reading the trace of the last handler

TraceIdx == 1..Len(trace)

IsCall(e, fn) == e.type = "call" /\ e.fn = fn

IsGet(e, scope) == e.type = "axios.get" /\ e.scope = scope

FetchOf(scope) ==
  CASE scope = "trip" -> "fetchTripMetrics"
    [] scope = "route" -> "fetchRouteMetrics"
    [] scope = "agency" -> "fetchAgencyMetrics"
    [] scope = "arrivals" -> "fetchArrivals"

ReceivedType(scope) ==
  CASE scope = "trip" -> "RECEIVED_TRIP_METRICS"
    [] scope = "route" -> "RECEIVED_ROUTE_METRICS"
    [] scope = "agency" -> "RECEIVED_AGENCY_METRICS"
    [] scope = "arrivals" -> "RECEIVED_ARRIVALS"

ErrorType(scope) ==
  CASE scope = "trip" -> "ERROR_TRIP_METRICS"
    [] scope = "route" -> "ERROR_ROUTE_METRICS"
    [] scope = "agency" -> "ERROR_AGENCY_METRICS"
    [] scope = "arrivals" -> "ERROR_ARRIVALS"

MetricsScopes == {"trip", "route", "agency"}

\* the handler issued a request of the scope: Requested transition or HTTP call
Issued(scope) ==
  \E i \in TraceIdx : trace[i].type = RequestType(scope) \/ IsGet(trace[i], scope)

\* positions of the Received / Errored transitions of the scope in the trace
Terminals(scope) ==
  {i \in TraceIdx : trace[i].type \in {ReceivedType(scope), ErrorType(scope)}}

----------------------------------------------------------------------------
\* C1: for each of the trip, route and agency scopes, a fetch invoked with the
\* variable bindings of the request issued last for that scope (no other
\* request and no reset in between) dispatches no Requested transition and
\* makes no HTTP call.
C1_DedupEveryScope ==
  step.kind = "handleGraphParams" =>
    \A scope \in MetricsScopes :
      \A i \in TraceIdx :
        (IsCall(trace[i], FetchOf(scope)) /\ trace[i].variables = step.prevRequested[scope])
          => ~Issued(scope)

\* C2: the response of a request that was superseded by a later request with
\* a different fingerprint is discarded: it leaves the scope's result as it was.
C2_StaleResponseDiscarded ==
  (step.kind = "deliver" /\ step.stale) => Slice(step.req.scope) = step.before

\* C3: non-empty arrival data held in the store was fetched for the
\* (agencyId, date, routeId) of the current selection.
C3_ArchiveMatchesSelection ==
  arrivals.data # <<>> => arrivals.data[1].for = ArrivalsURLOf(graphParams)

\* C4: a handleGraphParams call that changes the date, routeId or agencyId of
\* the stored selection dispatches the archive reset (url null, data null)
\* after the params update and before every Requested / Received / Errored
\* transition of the agency, route and trip scopes of that call.
TripleChanged ==
  \/ step.oldParams.firstDateRange.date # graphParams.firstDateRange.date
  \/ step.oldParams.routeId # graphParams.routeId
  \/ step.oldParams.agencyId # graphParams.agencyId

IsArrivalsReset(e) == e.type = "RECEIVED_ARRIVALS" /\ e.url = <<>> /\ e.data = <<>>

MetricsTransitions ==
  {i \in TraceIdx : \E scope \in MetricsScopes :
     trace[i].type \in {RequestType(scope), ReceivedType(scope), ErrorType(scope)}}

C4_ResetBeforeFetches ==
  (step.kind = "handleGraphParams" /\ TripleChanged) =>
    /\ \E i \in TraceIdx :
         /\ IsArrivalsReset(trace[i])
         /\ \E j \in 1..(i - 1) : trace[j].type = "RECEIVED_GRAPH_PARAMS"
         /\ \A j \in MetricsTransitions : i < j
    /\ arrivals.url = <<>>
    /\ arrivals.data = <<>>

C4_Witness ==
  /\ step.kind = "handleGraphParams"
  /\ TripleChanged
  /\ Issued("agency") /\ Issued("route") /\ Issued("trip")

\* C5: every call in flight was started after the Requested transition of its
\* scope was dispatched by the same thunk, so the Received / Errored transition
\* a settling call dispatches follows the Requested transition of that request.
C5_RequestedBeforeTerminal ==
  /\ \A req \in BagToSet(network) : req.requested
  /\ (step.kind = "deliver" /\ Terminals(step.req.scope) # {}) => step.req.requested

C5_Witness ==
  /\ step.kind = "deliver"
  /\ step.req.scope = "agency"
  /\ Terminals("agency") # {}
  /\ \E req \in BagToSet(network) : req.scope = "arrivals"

\* C6: fetchArrivals invoked for a location whose request is in flight or was
\* received dispatches no REQUEST_ARRIVALS and makes no HTTP call.
C6_ArrivalsDedup ==
  (step.kind = "fetchArrivals"
     /\ (step.wasInFlight \/ step.oldUrl = ArrivalsURLOf(step.params)))
    => ~Issued("arrivals")

\* C7: a call that settles dispatches exactly one Received or Errored
\* transition of its scope, whatever the outcome.
C7_OneTerminalPerCall ==
  step.kind = "deliver" => Cardinality(Terminals(step.req.scope)) = 1

\* C8: handleGraphParams invokes the trip fetch, and dispatches no trip reset,
\* when agencyId, routeId, directionId, startStopId and endStopId of the
\* stored selection are all present; otherwise it invokes no trip fetch and
\* dispatches the trip reset (RECEIVED_TRIP_METRICS with data null).
AllTripParams ==
  /\ Truthy(graphParams.agencyId)
  /\ Truthy(graphParams.routeId)
  /\ Truthy(graphParams.directionId)
  /\ Truthy(graphParams.startStopId)
  /\ Truthy(graphParams.endStopId)

CallsOf(fn) == {i \in TraceIdx : IsCall(trace[i], fn)}

TripResets ==
  {i \in TraceIdx : trace[i].type = "RECEIVED_TRIP_METRICS" /\ trace[i].data = <<>>}

C8_TripFetchOrReset ==
  step.kind = "handleGraphParams" =>
    /\ trace[1].type = "RECEIVED_GRAPH_PARAMS"
    /\ IF AllTripParams
       THEN Cardinality(CallsOf("fetchTripMetrics")) = 1 /\ TripResets = {}
       ELSE /\ CallsOf("fetchTripMetrics") = {}
            /\ ~Issued("trip")
            /\ Cardinality(TripResets) = 1

C8_Witness ==
  /\ step.kind = "handleGraphParams"
  /\ Truthy(graphParams.agencyId)
  /\ Truthy(graphParams.routeId)
  /\ Truthy(graphParams.directionId)
  /\ Truthy(graphParams.startStopId)
  /\ Falsy(graphParams.endStopId)
  /\ TripResets # {}

\* C9: handleGraphParams invokes the agency fetch exactly when the stored
\* primary date is present and the route fetch exactly when agencyId and
\* routeId are present, each at most once, the agency fetch before the route
\* fetch and both before the trip fetch or trip reset.
C9_AgencyRouteTriggers ==
  step.kind = "handleGraphParams" =>
    LET agencyCalls == CallsOf("fetchAgencyMetrics")
        routeCalls == CallsOf("fetchRouteMetrics")
        tripCalls == CallsOf("fetchTripMetrics") \cup CallsOf("resetTripMetrics")
    IN /\ (agencyCalls # {}) <=> (graphParams.firstDateRange.date # NoDate)
       /\ (routeCalls # {}) <=> (Truthy(graphParams.agencyId) /\ Truthy(graphParams.routeId))
       /\ Cardinality(agencyCalls) <= 1
       /\ Cardinality(routeCalls) <= 1
       /\ Cardinality(tripCalls) = 1
       /\ \A a \in agencyCalls : \A r \in routeCalls : a < r
       /\ \A a \in agencyCalls \cup routeCalls : \A t \in tripCalls : a < t

C9_Witness ==
  /\ step.kind = "handleGraphParams"
  /\ CallsOf("fetchAgencyMetrics") = {}
  /\ CallsOf("fetchRouteMetrics") # {}
  /\ CallsOf("fetchTripMetrics") # {}

\* C10 as stated: a resolved call of the trip, route or agency scope whose
\* payload contains an error list dispatches only Errored, with the message of
\* the first entry of the list.
C10_ErrorListFirstMessage ==
  (/\ step.kind = "deliver"
   /\ step.req.scope \in MetricsScopes
   /\ step.outcome.ok
   /\ step.outcome.data # <<>>
   /\ step.outcome.data[1].errors.kind = "list") =>
    /\ Len(step.outcome.data[1].errors.items) > 0
    /\ trace = <<[type |-> ErrorType(step.req.scope),
                  error |-> step.outcome.data[1].errors.items[1]]>>

\* C10 amended: a resolved call of the trip, route or agency scope whose
\* payload contains a non-empty error list dispatches only Errored, with the
\* message of the first entry of the list, also when the payload carries data.
C10_NonEmptyErrorList ==
  (/\ step.kind = "deliver"
   /\ step.req.scope \in MetricsScopes
   /\ step.outcome.ok
   /\ step.outcome.data # <<>>
   /\ step.outcome.data[1].errors.kind = "list"
   /\ Len(step.outcome.data[1].errors.items) > 0) =>
    trace = <<[type |-> ErrorType(step.req.scope),
               error |-> step.outcome.data[1].errors.items[1]]>>

C10_Witness ==
  /\ step.kind = "deliver"
  /\ step.req.scope = "trip"
  /\ step.outcome.ok
  /\ step.outcome.data # <<>>
  /\ step.outcome.data[1].errors.kind = "list"
  /\ Len(step.outcome.data[1].errors.items) > 1
  /\ step.outcome.data[1].data # <<>>
  /\ tripMetrics.error = "bad route"

\* C11: a failed arrivals call dispatches only ERROR_ARRIVALS with the fixed
\* message 'No data.', whatever the cause; the action carries no url and the
\* url recorded in the store stays as it was.
C11_ArrivalsFixedError ==
  (step.kind = "deliver" /\ step.req.scope = "arrivals" /\ ~step.outcome.ok) =>
    /\ trace = <<[type |-> "ERROR_ARRIVALS", error |-> "No data."]>>
    /\ arrivals.url = step.before.url
    /\ arrivals.error = "No data."

C11_Witness ==
  /\ step.kind = "deliver"
  /\ step.req.scope = "arrivals"
  /\ ~step.outcome.ok
  /\ step.outcome.errors.kind = "list"
  /\ arrivals.url # <<>>

----------------------------------------------------------------------------
\* Claims about the direct calls (checked under SpecCalls)

\* the day number of the date text <<"date", m>>
DayOf(dateStr) == dateStr[2]

\* C12: the list computeDates returns has at most MAX_DATE_RANGE dates, holds
\* only dates whose weekday flag is true, is strictly ascending, and is empty
\* when all seven flags are false.
C12_DatesBoundedFilteredSorted ==
  call.fn = "computeDates" =>
    LET dates == call.output
        days == call.input.daysOfTheWeek
    IN /\ Len(dates) <= MAX_DATE_RANGE
       /\ \A i \in 1..Len(dates) :
            /\ dates[i] = DateStr(DayOf(dates[i]))
            /\ days[DayOf(dates[i]) % 7]
       /\ \A i \in 1..(Len(dates) - 1) : DayOf(dates[i]) < DayOf(dates[i + 1])
       /\ (\A d \in 0..6 : ~days[d]) => dates = <<>>

C12_Witness ==
  /\ call.fn = "computeDates"
  /\ call.input.date # NoDate
  /\ Abs(call.input.date - call.input.startDate) + 1 > MAX_DATE_RANGE
  /\ call.input.daysOfTheWeek = WeekDays
  /\ Len(call.output) = MAX_DATE_RANGE

\* C13 as stated: when startDate equals date and some weekday flag is true,
\* computeDates returns exactly one date.
C13_SameDayOneDate ==
  (/\ call.fn = "computeDates"
   /\ call.input.date = call.input.startDate
   /\ \E d \in 0..6 : call.input.daysOfTheWeek[d]) =>
    Len(call.output) = 1

\* C13 amended: when startDate equals date, computeDates returns exactly that
\* date if the flag of its own weekday is true, and no date otherwise.
C13_SameDayOwnFlag ==
  (call.fn = "computeDates" /\ call.input.date = call.input.startDate) =>
    IF call.input.daysOfTheWeek[MomentDay(call.input.date)]
    THEN call.output = <<DateStr(call.input.date)>>
    ELSE call.output = <<>>

C13_Witness ==
  /\ call.fn = "computeDates"
  /\ call.input.date = call.input.startDate
  /\ call.input.daysOfTheWeek = WeekDays
  /\ call.output = <<DateStr(call.input.date)>>

\* C14: every date computeDates returns lies between date and startDate
\* inclusive, also when startDate is after date.
C14_DatesBetweenAnchors ==
  (call.fn = "computeDates" /\ call.input.date # NoDate) =>
    \A i \in 1..Len(call.output) :
      LET m == DayOf(call.output[i])
          lo == IF call.input.date < call.input.startDate
                THEN call.input.date ELSE call.input.startDate
          hi == IF call.input.date < call.input.startDate
                THEN call.input.startDate ELSE call.input.date
      IN lo <= m /\ m <= hi

----------------------------------------------------------------------------
\* C15: a rejected call of the trip, route or agency scope dispatches Errored
\* with the first message of the error list in the response body when the
\* body carries one, and with the transport error text otherwise.
C15_RejectedMessage ==
  (step.kind = "deliver" /\ step.req.scope \in MetricsScopes /\ ~step.outcome.ok) =>
    IF step.outcome.errors.kind = "list"
    THEN /\ Len(step.outcome.errors.items) > 0
         /\ trace = <<[type |-> ErrorType(step.req.scope),
                       error |-> step.outcome.errors.items[1]]>>
    ELSE trace = <<[type |-> ErrorType(step.req.scope),
                    error |-> step.outcome.message]>>

\* The node of the scope in a response body: agency, agency.route or
\* agency.route.trip, null when the body, its data or a node on the path is
\* missing.
NodeOfScope(responseData, scope) ==
  LET agencyNode == IF responseData = <<>> THEN <<>>
                    ELSE IF responseData[1].data = <<>> THEN <<>>
                    ELSE responseData[1].data[1].agency
      routeNode == IF agencyNode = <<>> THEN <<>> ELSE agencyNode[1].route
      tripNode == IF routeNode = <<>> THEN <<>> ELSE routeNode[1].trip
  IN CASE scope = "agency" -> agencyNode
       [] scope = "route" -> routeNode
       [] scope = "trip" -> tripNode

\* C16: a resolved call of the trip, route or agency scope whose body has no
\* error list dispatches exactly one transition, Received, whose data is the
\* node of the scope (null when anything on the path is missing).
C16_ReceivedNestedNode ==
  (/\ step.kind = "deliver"
   /\ step.req.scope \in MetricsScopes
   /\ step.outcome.ok
   /\ (step.outcome.data = <<>> \/ step.outcome.data[1].errors.kind = "absent")) =>
    /\ Len(trace) = 1
    /\ trace[1].type = ReceivedType(step.req.scope)
    /\ trace[1].data = NodeOfScope(step.outcome.data, step.req.scope)
    /\ Slice(step.req.scope).data = NodeOfScope(step.outcome.data, step.req.scope)

C16_Witness ==
  /\ step.kind = "deliver"
  /\ step.req.scope = "route"
  /\ step.outcome.ok
  /\ step.outcome.data # <<>>
  /\ step.outcome.data[1].errors.kind = "absent"
  /\ step.outcome.data[1].data # <<>>
  /\ step.outcome.data[1].data[1].agency = <<>>
  /\ trace[1].type = "RECEIVED_ROUTE_METRICS"
  /\ routeMetrics.data = <<>>

----------------------------------------------------------------------------
\* Reading variable bindings

Has(variables, name) == \E i \in 1..Len(variables) : variables[i][1] = name

Get(variables, name) ==
  variables[CHOOSE i \in 1..Len(variables) : variables[i][1] = name][2]

\* C17: in the trip variables includeByDay is true exactly when there is no
\* second range and more than one primary date; dualDateRange exactly when a
\* second range exists, and dates2 / startTime2 / endTime2 are bound exactly
\* then; includeTimeRanges exactly when the primary range has no start time,
\* includeTimeRanges2 exactly when a second range exists without start time.
C17_TripVariableFlags ==
  call.fn = "tripVariables" =>
    LET v == call.output
        first == call.input.firstDateRange
        second == call.input.secondDateRange
    IN /\ Get(v, "dates") = computeDates(first)
       /\ Get(v, "includeByDay") = (second = <<>> /\ Len(Get(v, "dates")) > 1)
       /\ Get(v, "dualDateRange") = (second # <<>>)
       /\ \A name \in {"dates2", "startTime2", "endTime2"} :
            Has(v, name) <=> second # <<>>
       /\ second # <<>> =>
            /\ Get(v, "dates2") = computeDates(second[1])
            /\ Get(v, "startTime2") = second[1].startTime
            /\ Get(v, "endTime2") = second[1].endTime
       /\ Get(v, "includeTimeRanges") = (first.startTime = NULL)
       /\ Get(v, "includeTimeRanges2") = (second # <<>> /\ second[1].startTime = NULL)

C17_Witness ==
  /\ call.fn = "tripVariables"
  /\ call.input.secondDateRange # <<>>
  /\ Len(Get(call.output, "dates")) > 1
  /\ ~Get(call.output, "includeByDay")
  /\ Get(call.output, "includeTimeRanges2")
  /\ ~Get(call.output, "includeTimeRanges")

\* C18: the download file name is arrivals_<routeId>_<date0>.csv when one date
\* was expanded and arrivals_<routeId>_<date0>_<date1>.csv otherwise, and
\* every date in it is a date of the expanded list.
C18_FilenameFromDates ==
  call.fn = "fetchDownload" =>
    LET dates == computeDates(call.input.firstDateRange)
        name == call.output.downloadFilename
        routeId == call.input.routeId
    IN IF Len(dates) = 1
       THEN name = <<"arrivals_", routeId, "_", dates[1], ".csv">>
       ELSE /\ Len(name) = 7
            /\ name[1] = "arrivals_" /\ name[2] = routeId /\ name[3] = "_"
            /\ name[5] = "_" /\ name[7] = ".csv"
            /\ Len(dates) >= 2
            /\ name[4] = dates[1]
            /\ name[6] = dates[2]

----------------------------------------------------------------------------
\* C19: while no trip fetch was issued since handleGraphParams last reset the
\* trip result, the trip data stays empty; a response of a trip fetch issued
\* before the reset does not fill it again.
C19_TripEmptyAfterReset ==
  lastRequested["trip"] = <<>> => tripMetrics.data = <<>>

\* C20: the agencyId bound in the variables of the route and agency fetches
\* is the agencyId of the selection, so a selection that differs from the
\* previous one only in its agencyId issues a new route request.
OnlyAgencyChanged ==
  /\ step.oldParams.agencyId # graphParams.agencyId
  /\ [step.oldParams EXCEPT !.agencyId = graphParams.agencyId] = graphParams

C20_AgencyIdOfSelection ==
  step.kind = "handleGraphParams" =>
    /\ \A i \in CallsOf("fetchRouteMetrics") \cup CallsOf("fetchAgencyMetrics") :
         Get(trace[i].variables, "agencyId") = graphParams.agencyId
    /\ (OnlyAgencyChanged /\ CallsOf("fetchRouteMetrics") # {}) => Issued("route")

----------------------------------------------------------------------------
\* C21: a handleGraphParams call that leaves the date, routeId and agencyId
\* of the stored selection as they were dispatches no archive reset and no
\* other arrivals action, and leaves the arrivals result (url, data, status,
\* error) as it was, whatever else of the selection changed.
ArrivalsActions ==
  {i \in TraceIdx :
     trace[i].type \in {"REQUEST_ARRIVALS", "RECEIVED_ARRIVALS", "ERROR_ARRIVALS"}}

C21_NoResetWhenTripleKept ==
  (step.kind = "handleGraphParams" /\ ~TripleChanged) =>
    /\ CallsOf("resetArrivals") = {}
    /\ ArrivalsActions = {}
    /\ arrivals = step.arrivalsBefore

C21_Witness ==
  /\ step.kind = "handleGraphParams"
  /\ ~TripleChanged
  /\ step.oldParams # graphParams
  /\ arrivals.data # <<>>
  /\ arrivals.url = ArrivalsURLOf(graphParams)
  /\ Issued("agency")

====
